---- MODULE Spec2Model ----
(***************************************************************************)
(* Model of the dgbridge message relay pipeline: the rule engine of        *)
(* src/lib/rules.go (ApplyRules, ApplyRule, buildTemplate, ApplyUserTags,  *)
(* the ANSI filter) and the Discord bot handlers (ready, startRelayJob,    *)
(* messageCreate).                                                         *)
(*                                                                         *)
(* A Go string is modelled as a sequence of characters; a character is a   *)
(* one-element TLA+ string, except the named characters "ESC" (0x1B),      *)
(* "NL" (0x0A) and "e_acute" (U+00E9, two bytes in UTF-8).                 *)
(***************************************************************************)
EXTENDS Integers, Sequences, FiniteSets, TLC

VARIABLES
    inp,        \* arguments of the library call / handler under test
    out,        \* its result, NotRun before the call
    readyOnce,  \* BotContext.readyOnce: TRUE once Do has run its function
    job,        \* per stream: the relay goroutine (pc, line in hand)
    chan,       \* per stream: the relay job's listener channel (a queue)
    registered, \* per stream: is the relay job's listener registered on the bus
    produced,   \* number of output lines the subprocess has printed so far
    received,   \* per stream: lines the relay job has taken from its channel
    sendLog,    \* every ChannelMessageSend call: stream, text, line number, error
    eventLog,   \* every message-create event the handler has been called with
    stdinLog,   \* every value broadcast on WriteStdinLineEvent, with its event
    readyEvents,\* number of Ready events the gateway has delivered
    started,    \* per stream: number of relay goroutines started
    listeners   \* per stream: number of listeners the relay jobs registered

vars == <<inp, out, readyOnce, job, chan, registered, produced, received,
          sendLog, eventLog, stdinLog, readyEvents, started, listeners>>

relayVars == <<readyOnce, job, chan, registered, produced, received,
               sendLog, eventLog, stdinLog, readyEvents, started, listeners>>

\* out before the call under test has run, inp when no call is under test
NotRun == [done |-> FALSE]
NoInput == [fn |-> "none"]

\* props == nil, and a non-nil *Props
NoProps == [nil |-> TRUE]
Props(author) == [nil |-> FALSE, Author |-> author]

----------------------------------------------------------------------------
(* Strings *)

RECURSIVE SeqsUpTo(_, _)
SeqsUpTo(S, n) ==
    IF n = 0 THEN {<<>>}
    ELSE LET shorter == SeqsUpTo(S, n - 1) IN
         shorter \cup {Append(s, c) : s \in shorter, c \in S}

RECURSIVE Flatten(_)
Flatten(ss) == IF ss = <<>> THEN <<>> ELSE Head(ss) \o Flatten(Tail(ss))

Drop(s, n) == SubSeq(s, n + 1, Len(s))

IsPrefix(p, s) == Len(p) <= Len(s) /\ SubSeq(s, 1, Len(p)) = p

Count(s, c) == Cardinality({i \in 1..Len(s) : s[i] = c})

\* the UTF-8 bytes of one character: "e_acute" (U+00E9) takes two bytes,
\* every other character of the model is ASCII and is its own byte
Utf8(c) == IF c = "e_acute" THEN <<"0xC3", "0xA9">> ELSE <<c>>

\* the bytes of a Go string (what template[i] indexes and len(template) counts)
Bytes(s) == Flatten([i \in 1..Len(s) |-> Utf8(s[i])])

HexDigit == <<"0", "1", "2", "3", "4", "5", "6", "7", "8", "9",
              "a", "b", "c", "d", "e", "f">>

\* strconv.FormatInt(n, 16)
RECURSIVE FormatHexNat(_)
FormatHexNat(n) ==
    IF n < 16 THEN <<HexDigit[n + 1]>>
    ELSE Append(FormatHexNat(n \div 16), HexDigit[(n % 16) + 1])

FormatInt16(n) == IF n < 0 THEN <<"-">> \o FormatHexNat(-n) ELSE FormatHexNat(n)

----------------------------------------------------------------------------
(* buildTemplate *)

\* the value a recognised directive character stands for
DirectiveValue_NickIgnored(d, props) ==
    CASE d = "^" -> <<"^">>
      [] d = "U" -> props.Author.Username
      [] d = "T" -> props.Author.Discriminator
      [] d = "C" -> FormatInt16(props.Author.AccentColor)
      [] d = "N" -> props.Author.Username

DirectiveValue(d, props) ==
    CASE d = "^" -> <<"^">>
      [] d = "U" -> props.Author.Username
      [] d = "T" -> props.Author.Discriminator
      [] d = "C" -> FormatInt16(props.Author.AccentColor)
      [] d = "N" -> IF props.Author.Nickname # <<>>
                    THEN props.Author.Nickname
                    ELSE props.Author.Username

Directives == {"^", "U", "T", "C", "N"}

\* the loop of buildTemplate: i (0-based) walks the runes of the template,
\* but the bound i+1 < len(template) and the lookahead template[i+1] are
\* taken on the bytes of the template
RECURSIVE buildTemplateLoop(_, _, _, _, _)
buildTemplateLoop(runes, bytes, props, i, result) ==
    IF i >= Len(runes) THEN result
    ELSE LET currentRune == runes[i + 1] IN
         IF currentRune = "^" /\ i + 1 < Len(bytes) /\ bytes[i + 2] \in Directives
         THEN buildTemplateLoop(runes, bytes, props, i + 2,
                                result \o DirectiveValue(bytes[i + 2], props))
         ELSE buildTemplateLoop(runes, bytes, props, i + 1,
                                Append(result, currentRune))

buildTemplate(template, props) ==
    buildTemplateLoop(template, Bytes(template), props, 0, <<>>)

----------------------------------------------------------------------------
\* Regular expressions.  A regexp is a record; the kinds are the two
\* package-level regexps of the code and two shapes of rule pattern:
\*   ansi     ESC, '[', any number of digits or ';', then 'm'
\*   mention  '@' and a group of one or more of a-z, A-Z, 0-9, '_'
\*   lit      a literal, non-empty text without groups (a Rule.Match)
\*   line     start of text, a group of any characters but newline, end of
\*            text (a Rule.Match)
\* Positions are 0-based and a match is <<start, end>>, end exclusive, as
\* in Go's regexp package; <<>> is "no match".

Digits == {"0", "1", "2", "3", "4", "5", "6", "7", "8", "9"}

Lower == {"a", "b", "c", "d", "e", "f", "g", "h", "i", "j", "k", "l", "m",
          "n", "o", "p", "q", "r", "s", "t", "u", "v", "w", "x", "y", "z"}

Upper == {"A", "B", "C", "D", "E", "F", "G", "H", "I", "J", "K", "L", "M",
          "N", "O", "P", "Q", "R", "S", "T", "U", "V", "W", "X", "Y", "Z"}

\* [a-zA-Z0-9_]
WordChars == Lower \cup Upper \cup Digits \cup {"_"}

\* [0-9;]
AnsiParams == Digits \cup {";"}

\* end (exclusive) of the longest run of characters of S that starts at the
\* 0-based position i of s
RECURSIVE RunEnd(_, _, _)
RunEnd(s, i, S) ==
    IF i < Len(s) /\ s[i + 1] \in S THEN RunEnd(s, i + 1, S) ELSE i

ansiRegex == [kind |-> "ansi"]

mentionRegex == [kind |-> "mention"]

LitRegex(w) == [kind |-> "lit", lit |-> w]

LineRegex == [kind |-> "line"]

\* the match of re that starts exactly at position i of s (end exclusive),
\* or -1; every kind has at most one candidate at a given start because its
\* repetitions are greedy and are followed by a character outside the class
MatchEndAt(re, s, i) ==
    CASE re.kind = "ansi" ->
            IF i + 1 < Len(s) /\ s[i + 1] = "ESC" /\ s[i + 2] = "["
            THEN LET j == RunEnd(s, i + 2, AnsiParams) IN
                 IF j < Len(s) /\ s[j + 1] = "m" THEN j + 1 ELSE -1
            ELSE -1
      [] re.kind = "mention" ->
            IF i < Len(s) /\ s[i + 1] = "@"
            THEN LET j == RunEnd(s, i + 1, WordChars) IN
                 IF j > i + 1 THEN j ELSE -1
            ELSE -1
      [] re.kind = "lit" ->
            IF i + Len(re.lit) <= Len(s)
               /\ SubSeq(s, i + 1, i + Len(re.lit)) = re.lit
            THEN i + Len(re.lit) ELSE -1
      [] re.kind = "line" ->
            \* ^ only at the start of the text, . does not match a newline,
            \* $ only at the end of the text
            IF i = 0 /\ \A k \in 1..Len(s) : s[k] # "NL" THEN Len(s) ELSE -1

\* leftmost match at or after pos
RECURSIVE FindFrom(_, _, _)
FindFrom(re, s, pos) ==
    IF pos > Len(s) THEN <<>>
    ELSE LET e == MatchEndAt(re, s, pos) IN
         IF e >= 0 THEN <<pos, e>> ELSE FindFrom(re, s, pos + 1)

\* Regexp.MatchString
MatchString(re, s) == FindFrom(re, s, 0) # <<>>

\* number of capture groups of re
NumSubexp(re) == IF re.kind \in {"mention", "line"} THEN 1 ELSE 0

\* text of group n of the match a of re in s
GroupText(re, s, a, n) ==
    CASE n = 0 -> SubSeq(s, a[1] + 1, a[2])
      [] n = 1 /\ re.kind = "mention" -> SubSeq(s, a[1] + 2, a[2])
      [] n = 1 /\ re.kind = "line" -> SubSeq(s, a[1] + 1, a[2])
      [] OTHER -> <<>>

\* characters of a $name: unicode.IsLetter, unicode.IsDigit or '_'
NameChars == WordChars \cup {"e_acute"}

RECURSIVE ParseNum(_, _)
ParseNum(name, acc) ==
    IF name = <<>> THEN acc
    ELSE IF Head(name) \notin Digits THEN -1
    ELSE ParseNum(Tail(name),
                  acc * 10 + (CHOOSE d \in 0..9 : HexDigit[d + 1] = Head(name)))

\* regexp.extract: the name after a '$'
Extract(str) ==
    IF str = <<>> THEN [ok |-> FALSE]
    ELSE LET brace == str[1] = "{"
             body == IF brace THEN Tail(str) ELSE str
             n == RunEnd(body, 0, NameChars)
             name == SubSeq(body, 1, n)
             rest == Drop(body, n)
             num == IF Len(name) > 1 /\ name[1] = "0" THEN -1
                    ELSE ParseNum(name, 0)
         IN IF n = 0 THEN [ok |-> FALSE]
            ELSE IF brace /\ (rest = <<>> \/ rest[1] # "}") THEN [ok |-> FALSE]
            ELSE [ok |-> TRUE, num |-> num,
                  rest |-> IF brace THEN Tail(rest) ELSE rest]

\* 0-based position of the first c at or after i in s, Len(s) if none
RECURSIVE IndexFrom(_, _, _)
IndexFrom(s, i, c) ==
    IF i < Len(s) /\ s[i + 1] # c THEN IndexFrom(s, i + 1, c) ELSE i

\* Regexp.expand: the replacement text of one match
RECURSIVE Expand(_, _, _, _)
Expand(template, re, s, a) ==
    LET k == IndexFrom(template, 0, "$") IN
    IF k >= Len(template) THEN template
    ELSE LET before == SubSeq(template, 1, k)
             after == Drop(template, k + 1)
         IN IF after # <<>> /\ after[1] = "$"
            THEN before \o <<"$">> \o Expand(Tail(after), re, s, a)
            ELSE LET x == Extract(after) IN
                 IF ~x.ok THEN before \o <<"$">> \o Expand(after, re, s, a)
                 ELSE before
                      \o (IF x.num >= 0 /\ x.num <= NumSubexp(re)
                          THEN GroupText(re, s, a, x.num) ELSE <<>>)
                      \o Expand(x.rest, re, s, a)
\* the replacement of one match: Regexp.expand of a template
\* (ReplaceAllString), or the callback of ApplyUserTags
\* (ReplaceAllStringFunc)
TagReplacement_AnyWord(userMap, match, nickname) ==
    IF \E k \in DOMAIN userMap : IsPrefix(k, nickname)
    THEN <<"<", "@">>
         \o userMap[CHOOSE k \in DOMAIN userMap : IsPrefix(k, nickname)]
         \o <<">">>
    ELSE match

TagReplacement(userMap, match, nickname) ==
    IF nickname \in DOMAIN userMap
    THEN <<"<", "@">> \o userMap[nickname] \o <<">">>
    ELSE match

Replacement(re, s, a, repl) ==
    IF repl.fn = "expand" THEN Expand(repl.template, re, s, a)
    ELSE TagReplacement(repl.userMap, GroupText(re, s, a, 0),
                        GroupText(re, s, a, 1))

\* Regexp.replaceAll
RECURSIVE replaceAllLoop(_, _, _, _, _, _)
replaceAllLoop(re, s, repl, lastMatchEnd, searchPos, buf) ==
    LET a == FindFrom(re, s, searchPos) IN
    IF searchPos > Len(s) \/ a = <<>> THEN buf \o Drop(s, lastMatchEnd)
    ELSE LET copied == buf \o SubSeq(s, lastMatchEnd + 1, a[1])
             width == IF searchPos < Len(s) THEN 1 ELSE 0
         IN replaceAllLoop(re, s, repl, a[2],
                IF searchPos + width > a[2] THEN searchPos + width
                ELSE IF searchPos + 1 > a[2] THEN searchPos + 1
                ELSE a[2],
                IF a[2] > lastMatchEnd \/ a[1] = 0
                THEN copied \o Replacement(re, s, a, repl)
                ELSE copied)

ReplaceAllString(re, s, template) ==
    replaceAllLoop(re, s, [fn |-> "expand", template |-> template], 0, 0, <<>>)

\* ansiRegex.ReplaceAllString(s, "")
StripAnsi(s) == ReplaceAllString(ansiRegex, s, <<>>)

\* strings.ReplaceAll(input, "\n", " ")
ReplaceNewlines(input) ==
    [i \in 1..Len(input) |-> IF input[i] = "NL" THEN " " ELSE input[i]]

----------------------------------------------------------------------------
(* The rule engine *)

ApplyRule_KeepNewlines(rule, props, input) ==
    IF MatchString(rule.Match, input)
    THEN IF props.nil
         THEN ReplaceAllString(rule.Match, input, rule.Template)
         ELSE ReplaceAllString(rule.Match, input,
                               buildTemplate(rule.Template, props))
    ELSE <<>>

ApplyRule(rule, props, input) ==
    LET normalized == ReplaceNewlines(input) IN
    IF MatchString(rule.Match, normalized)
    THEN IF props.nil
         THEN ReplaceAllString(rule.Match, normalized, rule.Template)
         ELSE ReplaceAllString(rule.Match, normalized,
                               buildTemplate(rule.Template, props))
    ELSE <<>>

RECURSIVE ApplyRules(_, _, _)
ApplyRules(rules, props, input) ==
    IF rules = <<>> THEN <<>>
    ELSE LET result == ApplyRule(Head(rules), props, input) IN
         IF result # <<>> THEN StripAnsi(result)
         ELSE ApplyRules(Tail(rules), props, input)

ApplyUserTags(input, userMap) ==
    IF DOMAIN userMap = {} THEN input
    ELSE replaceAllLoop(mentionRegex, input,
                        [fn |-> "tags", userMap |-> userMap], 0, 0, <<>>)
----------------------------------------------------------------------------
(* The bridge: state after StartDiscordBot *)

Streams == {"stdout", "stderr"}

RelayInit ==
    /\ readyOnce = FALSE
    /\ job = [st \in Streams |-> [pc |-> "none", line |-> <<>>]]
    /\ chan = [st \in Streams |-> <<>>]
    /\ registered = [st \in Streams |-> FALSE]
    /\ produced = 0
    /\ received = [st \in Streams |-> <<>>]
    /\ sendLog = <<>>
    /\ eventLog = <<>>
    /\ stdinLog = <<>>
    /\ readyEvents = 0
    /\ started = [st \in Streams |-> 0]
    /\ listeners = [st \in Streams |-> 0]

----------------------------------------------------------------------------
(* buildTemplate on every template up to MaxTemplateLen *)

MaxTemplateLen == 3

TemplateChars == {"^", "U", "T", "C", "N", "X", "e_acute"}

Bob == [Username |-> <<"B", "o", "b", "^", "T">>,
        Nickname |-> <<"b", "o", "b", "b", "y">>,
        Discriminator |-> <<"1", "3", "3", "7">>,
        AccentColor |-> 16776960]

Al == [Username |-> <<"a", "l">>,
       Nickname |-> <<>>,
       Discriminator |-> <<"0">>,
       AccentColor |-> 0]

\* an author whose nickname contains a newline
Nel == [Username |-> <<"n", "e", "l">>,
        Nickname |-> <<"n", "NL", "l">>,
        Discriminator |-> <<"7">>,
        AccentColor |-> 255]

Authors == {Bob, Al, Nel}

\* the global display name of the message author on the chat platform
GlobalDisplayNames == {<<>>, <<"G", "d">>}

InitTemplate ==
    /\ inp \in [fn : {"buildTemplate"},
                template : SeqsUpTo(TemplateChars, MaxTemplateLen),
                props : {Props(a) : a \in Authors},
                globalDisplayName : GlobalDisplayNames]
    /\ out = NotRun
    /\ RelayInit

CallBuildTemplate ==
    /\ inp.fn = "buildTemplate"
    /\ ~out.done
    /\ out' = [done |-> TRUE, ret |-> buildTemplate(inp.template, inp.props)]
    /\ UNCHANGED <<inp, relayVars>>

NextTemplate == CallBuildTemplate

SpecTemplate == InitTemplate /\ [][NextTemplate]_vars

\* the single left-to-right scan over the characters of the template
RECURSIVE ReferenceScan(_, _)
ReferenceScan(template, props) ==
    IF template = <<>> THEN <<>>
    ELSE IF Head(template) = "^" /\ Len(template) >= 2
            /\ template[2] \in {"U", "T", "C", "N"}
    THEN DirectiveValue(template[2], props)
         \o ReferenceScan(Drop(template, 2), props)
    ELSE IF Head(template) = "^" /\ Len(template) >= 2 /\ template[2] = "^"
    THEN <<"^">> \o ReferenceScan(Drop(template, 2), props)
    ELSE <<Head(template)>> \o ReferenceScan(Tail(template), props)

\* C2: buildTemplate equals the reference single left-to-right scan, for
\* every template (ASCII and non-ASCII characters, directives anywhere) and
\* every author context.
C2_BuildTemplateIsReferenceScan ==
    out.done => out.ret = ReferenceScan(inp.template, inp.props)

\* the directive values as the specification gives them, with the global
\* display name in the fallback chains
SpecDirectiveValue(d, author, gdn) ==
    CASE d = "N" -> IF author.Nickname # <<>> THEN author.Nickname
                    ELSE IF gdn # <<>> THEN gdn ELSE author.Username
      [] d = "U" -> IF gdn # <<>> THEN gdn ELSE author.Username
      [] d = "T" -> author.Discriminator
      [] d = "C" -> FormatInt16(author.AccentColor)

\* C4 as stated: ^N is nickname, else globalDisplayName, else username; ^U is
\* globalDisplayName, else username; ^T is the discriminator; ^C is the accent
\* colour in lowercase hexadecimal.
C4_SpecFallbackChains ==
    \A d \in {"U", "T", "C", "N"} :
        (out.done /\ inp.template = <<"^", d>>)
            => out.ret = SpecDirectiveValue(d, inp.props.Author,
                                            inp.globalDisplayName)

\* C4 amended: ^N is the nickname if non-empty, else the username; ^U is the
\* username; ^T is the discriminator; ^C is the accent colour in lowercase
\* hexadecimal without prefix.  The global display name is never used.  A
\* template that is the directive expands to exactly that value and a
\* template that starts with the directive expands to a text starting with it.
C4_CodeFallbackChains ==
    out.done =>
        LET a == inp.props.Author
            t == inp.template
            value == [d \in {"U", "T", "C", "N"} |->
                        CASE d = "N" -> IF a.Nickname = <<>> THEN a.Username
                                        ELSE a.Nickname
                          [] d = "U" -> a.Username
                          [] d = "T" -> a.Discriminator
                          [] d = "C" ->
                                CASE a.AccentColor = 16776960 ->
                                        <<"f", "f", "f", "f", "0", "0">>
                                  [] a.AccentColor = 255 -> <<"f", "f">>
                                  [] a.AccentColor = 0 -> <<"0">>]
        IN \A d \in {"U", "T", "C", "N"} :
              /\ t = <<"^", d>> => out.ret = value[d]
              /\ IsPrefix(<<"^", d>>, t) => IsPrefix(value[d], out.ret)

\* C4 witness: ^N of an author without nickname but with a global display
\* name expanded to the username
C4_Witness ==
    /\ out.done
    /\ inp.template = <<"^", "N">>
    /\ inp.props.Author.Nickname = <<>>
    /\ inp.globalDisplayName # <<>>
    /\ out.ret = inp.props.Author.Username
----------------------------------------------------------------------------
(* The ANSI filter on every line up to MaxAnsiLen: one pass as in          *)
(* ApplyRules, then the second pass of the relay job that strips again     *)

MaxAnsiLen == 6

AnsiChars == {"ESC", "[", "1", ";", "m", "x"}

InitAnsi ==
    /\ inp \in [fn : {"stripAnsi"}, input : SeqsUpTo(AnsiChars, MaxAnsiLen)]
    /\ out = NotRun
    /\ RelayInit

\* result = ansiRegex.ReplaceAllString(result, "") in ApplyRules
CallStripAnsi ==
    /\ inp.fn = "stripAnsi"
    /\ ~out.done
    /\ out' = [done |-> TRUE, passes |-> 1, ret |-> StripAnsi(inp.input),
               once |-> StripAnsi(inp.input)]
    /\ UNCHANGED <<inp, relayVars>>

\* line = ansiRegex.ReplaceAllString(line, "") in the relay job, on the
\* line ApplyRules has stripped already
CallStripAnsiAgain ==
    /\ inp.fn = "stripAnsi"
    /\ out.done
    /\ out.passes = 1
    /\ out' = [out EXCEPT !.passes = 2, !.ret = StripAnsi(out.ret)]
    /\ UNCHANGED <<inp, relayVars>>

NextAnsi == CallStripAnsi \/ CallStripAnsiAgain

SpecAnsi == InitAnsi /\ [][NextAnsi]_vars

\* C5: ANSI stripping is idempotent: the line after the second strip equals
\* the line after the first, for every input.
C5_StripTwiceEqualsStripOnce ==
    (out.done /\ out.passes = 2) => out.ret = out.once

----------------------------------------------------------------------------
(* ApplyUserTags on every line up to MaxTagLen *)

MaxTagLen == 5

TagChars == {"@", "b", "o", "_", " "}

EmptyUserMap == [k \in {} |-> <<>>]

BoMap == [k \in {<<"b", "o">>} |-> <<"4", "2">>]

BobsMap == [k \in {<<"b">>, <<"b", "o">>} |->
                IF k = <<"b">> THEN <<"@", "b", "o">> ELSE <<"4", "2">>]

UserMaps == {EmptyUserMap, BoMap, BobsMap}

InitTags ==
    /\ inp \in [fn : {"applyUserTags"},
                input : SeqsUpTo(TagChars, MaxTagLen),
                userMap : UserMaps]
    /\ out = NotRun
    /\ RelayInit

CallApplyUserTags ==
    /\ inp.fn = "applyUserTags"
    /\ ~out.done
    /\ out' = [done |-> TRUE, ret |-> ApplyUserTags(inp.input, inp.userMap)]
    /\ UNCHANGED <<inp, relayVars>>

NextTags == CallApplyUserTags

SpecTags == InitTags /\ [][NextTags]_vars

\* the input cut into pieces: each token ('@' and the maximal run of word
\* characters after it, at least one) is a piece, and so is every character
\* outside a token
RECURSIVE Pieces(_)
Pieces(s) ==
    IF s = <<>> THEN <<>>
    ELSE LET n == IF Head(s) = "@" THEN RunEnd(s, 1, WordChars) ELSE 1 IN
         <<SubSeq(s, 1, n)>> \o Pieces(Drop(s, n))

IsToken(piece) == Len(piece) >= 2 /\ piece[1] = "@"

\* C6: each token whose word is a key of the directory is replaced by
\* <@id>; tokens whose word is no key and all text outside tokens stay as
\* they are; with an empty directory the input is returned unmodified.
C6_ApplyUserTags ==
    out.done =>
        LET pieces == Pieces(inp.input)
            image(piece) ==
                IF IsToken(piece) /\ Tail(piece) \in DOMAIN inp.userMap
                THEN <<"<", "@">> \o inp.userMap[Tail(piece)] \o <<">">>
                ELSE piece
        IN /\ out.ret = Flatten([i \in 1..Len(pieces) |-> image(pieces[i])])
           /\ DOMAIN inp.userMap = {} => out.ret = inp.input

\* C6 witness: a line with a token that is no key ("@b") and one that is a
\* key ("@bo"); only the second is replaced
C6_Witness ==
    /\ out.done
    /\ inp.input = <<"@", "b", "@", "b", "o">>
    /\ inp.userMap = BoMap
    /\ out.ret = <<"@", "b", "<", "@", "4", "2", ">">>
----------------------------------------------------------------------------
(* ApplyRules on every rule sequence up to MaxRules and every input up to  *)
(* MaxInputLen                                                             *)

MaxRules == 2

MaxInputLen == 3

InputChars == {"a", "b", "NL"}

\* "a" -> "${1}": the pattern has no group 1, the expansion is empty
RuleDrop == [Match |-> LitRegex(<<"a">>), Template |-> <<"$", "{", "1", "}">>]

\* whole line -> "<^U> ${1}"
RuleLine == [Match |-> LineRegex,
             Template |-> <<"<", "^", "U", ">", " ", "$", "{", "1", "}">>]

\* "b" -> "^N"
RuleB == [Match |-> LitRegex(<<"b">>), Template |-> <<"^", "N">>]

RulePool == {RuleDrop, RuleLine, RuleB}

InitRules ==
    /\ inp \in [fn : {"applyRules"},
                rules : SeqsUpTo(RulePool, MaxRules),
                props : {NoProps, Props(Bob)},
                input : SeqsUpTo(InputChars, MaxInputLen)]
    /\ out = NotRun
    /\ RelayInit

CallApplyRules ==
    /\ inp.fn = "applyRules"
    /\ ~out.done
    /\ out' = [done |-> TRUE, ret |-> ApplyRules(inp.rules, inp.props, inp.input)]
    /\ UNCHANGED <<inp, relayVars>>

NextRules == CallApplyRules

SpecRules == InitRules /\ [][NextRules]_vars

\* index of the first rule whose pattern matches the newline-normalized
\* input, 0 if none does
FirstMatching(rules, input) ==
    LET hits == {k \in 1..Len(rules) :
                    MatchString(rules[k].Match, ReplaceNewlines(input))}
    IN IF hits = {} THEN 0 ELSE CHOOSE k \in hits : \A j \in hits : k <= j

\* C1: the result is decided by the first rule whose pattern matches the
\* normalized input: it is what that rule alone gives (empty when its
\* expansion is empty), whatever rules follow it, and empty if none matches.
C1_FirstMatchDecides ==
    out.done =>
        LET k == FirstMatching(inp.rules, inp.input) IN
        out.ret = IF k = 0 THEN <<>>
                  ELSE ApplyRules(<<inp.rules[k]>>, inp.props, inp.input)
----------------------------------------------------------------------------
(* The chat message handler *)

BotUserID == "bot"

RelayChannelId == "relay"

\* getAccentColor, on the colour getHighestRoleWithColor returned
getAccentColor(m) ==
    IF m.RoleColor # 0 THEN m.RoleColor
    ELSE IF m.AccentColor # 0 THEN m.AccentColor
    ELSE 0

\* the author context messageCreate builds from the event
MessageProps(m) ==
    Props([Username |-> m.Username,
           Nickname |-> m.Nick,
           Discriminator |-> m.Discriminator,
           AccentColor |-> getAccentColor(m)])

\* the handler returned by messageCreate: the values it broadcasts on
\* WriteStdinLineEvent for the event m, none or one
messageCreate_NoAuthorTest(m, rules) ==
    IF ~(m.ChannelID = RelayChannelId) THEN <<>>
    ELSE LET msg == ApplyRules(rules.DiscordToSubprocess, MessageProps(m),
                               m.Content)
         IN IF msg = <<>> THEN <<>> ELSE <<msg \o <<"NL">>>>

messageCreate(m, rules) ==
    IF m.AuthorID = BotUserID THEN <<>>
    ELSE IF ~(m.ChannelID = RelayChannelId) THEN <<>>
    ELSE LET msg == ApplyRules(rules.DiscordToSubprocess, MessageProps(m),
                               m.Content)
         IN IF msg = <<>> THEN <<>> ELSE <<msg \o <<"NL">>>>

\* a message-create event of the gateway
MessageEvent(authorID, channelID, author, roleColor, content) ==
    [AuthorID |-> authorID, ChannelID |-> channelID, Content |-> content,
     Username |-> author.Username, Nick |-> author.Nickname,
     Discriminator |-> author.Discriminator,
     AccentColor |-> author.AccentColor, RoleColor |-> roleColor]

----------------------------------------------------------------------------
(* messageCreate on every message content up to MaxChatLen *)

MaxChatLen == 4

ChatChars == {"a", "NL", "ESC", "[", "m"}

\* "a" -> "say ^N"
RuleSay == [Match |-> LitRegex(<<"a">>),
            Template |-> <<"s", "a", "y", " ", "^", "N">>]

\* whole line -> "${1}", a newline and "x"
RuleTwoLines == [Match |-> LineRegex,
                 Template |-> <<"$", "{", "1", "}", "NL", "x">>]

ChatRuleLists == {<<RuleLine>>, <<RuleSay>>, <<RuleDrop, RuleTwoLines>>}

InitChat ==
    /\ inp \in [fn : {"messageCreate"},
                rules : [DiscordToSubprocess : ChatRuleLists,
                         SubprocessToDiscord : {<<RuleLine>>}],
                m : {MessageEvent(id, ch, a, 0, c) :
                        id \in {BotUserID, "user"},
                        ch \in {RelayChannelId, "other"},
                        a \in {Bob, Nel},
                        c \in SeqsUpTo(ChatChars, MaxChatLen)}]
    /\ out = NotRun
    /\ RelayInit

CallMessageCreate ==
    /\ inp.fn = "messageCreate"
    /\ ~out.done
    /\ out' = [done |-> TRUE, ret |-> messageCreate(inp.m, inp.rules)]
    /\ UNCHANGED <<inp, relayVars>>

NextChat == CallMessageCreate

SpecChat == InitChat /\ [][NextChat]_vars

HasNewline(s) == \E i \in 1..Len(s) : s[i] = "NL"

\* the replacement of the rule ApplyRules settles on: the first non-empty
\* result of ApplyRule along the rules
RECURSIVE MatchedReplacement(_, _, _)
MatchedReplacement(rules, props, input) ==
    IF rules = <<>> THEN <<>>
    ELSE IF ApplyRule(Head(rules), props, input) # <<>>
    THEN ApplyRule(Head(rules), props, input)
    ELSE MatchedReplacement(Tail(rules), props, input)

\* C3: on the chat->process direction no ANSI stripping happens: the value
\* published on stdinWrite is the matched rule's replacement, escape
\* sequences intact, and the newline.
C3_ChatToProcessKeepsAnsi ==
    (out.done /\ out.ret # <<>>) =>
        out.ret[1] = MatchedReplacement(inp.rules.DiscordToSubprocess,
                                        MessageProps(inp.m), inp.m.Content)
                     \o <<"NL">>

\* C7: when no rule template and no author field contains a newline, every
\* value the handler publishes on stdinWrite contains exactly one newline,
\* its last character.
C7_OneTrailingNewline ==
    (/\ out.done
     /\ \A k \in 1..Len(inp.rules.DiscordToSubprocess) :
            ~HasNewline(inp.rules.DiscordToSubprocess[k].Template)
     /\ ~HasNewline(inp.m.Username) /\ ~HasNewline(inp.m.Nick)
     /\ ~HasNewline(inp.m.Discriminator))
    => \A i \in 1..Len(out.ret) :
          /\ Count(out.ret[i], "NL") = 1
          /\ out.ret[i][Len(out.ret[i])] = "NL"

\* C7 witness: a message with a newline in it was published, with the
\* newline turned into a space
C7_Witness ==
    /\ out.done
    /\ inp.m.Content = <<"a", "NL", "a">>
    /\ inp.rules.DiscordToSubprocess = <<RuleLine>>
    /\ inp.m.Username = Bob.Username
    /\ out.ret = << <<"<">> \o Bob.Username
                    \o <<">", " ", "a", " ", "a", "NL">> >>
----------------------------------------------------------------------------
(* The running bridge: the subprocess broadcasts output lines, the gateway *)
(* delivers Ready and message-create events, the relay jobs send to chat   *)

MaxLines == 3

\* bound on the events the gateway delivers, Ready and message-create together
MaxEvents == 2

\* whole line -> "${1}"
RuleEcho == [Match |-> LineRegex, Template |-> <<"$", "{", "1", "}">>]

\* BotContext.rules and BotContext.userMap
BridgeRules == [DiscordToSubprocess |-> <<RuleSay>>,
                SubprocessToDiscord |-> <<RuleEcho>>]

BridgeUserMap == BoMap

\* lines the subprocess prints: sent as is, sent with a mention resolved,
\* and suppressed (the echo of a bare escape sequence is empty after the
\* ANSI strip)
OutputLines == {<<"a">>, <<"@", "b", "o">>, <<"ESC", "[", "m">>}

\* message-create events: relayed, suppressed (no rule matches "m"), by the
\* bot itself, in another channel
ChatEvents == {MessageEvent("user", RelayChannelId, Bob, 255, <<"a">>),
               MessageEvent("user", RelayChannelId, Al, 0, <<"m">>),
               MessageEvent(BotUserID, RelayChannelId, Al, 0, <<"a">>),
               MessageEvent("user", "other", Bob, 0, <<"a">>)}

InitBridge ==
    /\ inp = NoInput
    /\ out = NotRun
    /\ RelayInit

\* the handler returned by ready: readyOnce.Do starts the two relay jobs
\* sync.Once.Do: does this call run the function, given whether an earlier
\* call has; concurrent calls are serialized by the Once
OnceDo_Always(done) == TRUE

OnceDo(done) == ~done

ready ==
    /\ readyEvents + Len(eventLog) < MaxEvents
    /\ readyEvents' = readyEvents + 1
    /\ IF OnceDo(readyOnce)
       THEN /\ readyOnce' = TRUE
            /\ job' = [st \in Streams |-> [pc |-> "start", line |-> <<>>]]
            /\ started' = [st \in Streams |-> started[st] + 1]
       ELSE UNCHANGED <<readyOnce, job, started>>
    /\ UNCHANGED <<inp, out, chan, registered, produced, received, sendLog,
                   eventLog, stdinLog, listeners>>

\* EventChannel.Listen at the start of startRelayJob
Listen(st) ==
    /\ job[st].pc = "start"
    /\ registered' = [registered EXCEPT ![st] = TRUE]
    /\ job' = [job EXCEPT ![st].pc = "recv"]
    /\ listeners' = [listeners EXCEPT ![st] = @ + 1]
    /\ UNCHANGED <<inp, out, readyOnce, chan, produced, received, sendLog,
                   eventLog, stdinLog, readyEvents, started>>

\* EventChannel.Broadcast of an output line by the subprocess reader: the
\* line goes to the channel of every registered listener
Broadcast(st, line) ==
    /\ produced < MaxLines
    /\ produced' = produced + 1
    /\ chan' = [chan EXCEPT ![st] = IF registered[st] THEN Append(@, line) ELSE @]
    /\ UNCHANGED <<inp, out, readyOnce, job, registered, received, sendLog,
                   eventLog, stdinLog, readyEvents, started, listeners>>

\* the body of the relay loop up to the send: the texts to send for a line,
\* none (continue) or one
relayLine_NoSuppress(line, rules, userMap) ==
    <<ApplyUserTags(ApplyRules(rules.SubprocessToDiscord, NoProps, line),
                    userMap)>>

relayLine(line, rules, userMap) ==
    LET applied == ApplyRules(rules.SubprocessToDiscord, NoProps, line) IN
    IF applied = <<>> THEN <<>>
    ELSE <<ApplyUserTags(applied, userMap)>>

\* may the loop take the next line: only when no send is under way
CanTake_Async(pc) == pc \in {"recv", "send"}

CanTake(pc) == pc = "recv"

\* where the loop goes after ChannelMessageSend returned: an error is
\* logged and the loop goes on with the next line
AfterSend_Retry(err) == IF err THEN "send" ELSE "recv"

AfterSend(err) == "recv"

\* for line := range lineCh, up to the call of ChannelMessageSend
RelayTake(st) ==
    /\ CanTake(job[st].pc)
    /\ chan[st] # <<>>
    /\ LET line == Head(chan[st])
           texts == relayLine(line, BridgeRules, BridgeUserMap)
       IN /\ chan' = [chan EXCEPT ![st] = Tail(@)]
          /\ received' = [received EXCEPT ![st] = Append(@, line)]
          /\ job' = [job EXCEPT ![st] =
                        IF texts = <<>> THEN [pc |-> "recv", line |-> <<>>]
                        ELSE [pc |-> "send", line |-> texts[1]]]
    /\ UNCHANGED <<inp, out, readyOnce, registered, produced, sendLog,
                   eventLog, stdinLog, readyEvents, started, listeners>>

\* session.ChannelMessageSend returns, with or without an error
RelaySend(st, err) ==
    /\ job[st].pc = "send"
    /\ sendLog' = Append(sendLog, [stream |-> st, text |-> job[st].line,
                                   n |-> Len(received[st]), err |-> err])
    /\ job' = [job EXCEPT ![st] =
                  [pc |-> AfterSend(err),
                   line |-> IF AfterSend(err) = "send" THEN @.line ELSE <<>>]]
    /\ UNCHANGED <<inp, out, readyOnce, chan, registered, produced, received,
                   eventLog, stdinLog, readyEvents, started, listeners>>

\* the gateway calls the message-create handler
MessageCreate(m) ==
    /\ readyEvents + Len(eventLog) < MaxEvents
    /\ eventLog' = Append(eventLog, m)
    /\ LET values == messageCreate(m, BridgeRules) IN
       stdinLog' = stdinLog \o [i \in 1..Len(values) |->
                                   [value |-> values[i],
                                    event |-> Len(eventLog) + 1]]
    /\ UNCHANGED <<inp, out, readyOnce, job, chan, registered, produced,
                   received, sendLog, readyEvents, started,
                   listeners>>

Next ==
    \/ ready
    \/ \E st \in Streams : Listen(st)
    \/ \E st \in Streams, line \in OutputLines : Broadcast(st, line)
    \/ \E st \in Streams : RelayTake(st)
    \/ \E st \in Streams, err \in BOOLEAN : RelaySend(st, err)
    \/ \E m \in ChatEvents : MessageCreate(m)

Spec == InitBridge /\ [][Next]_vars
----------------------------------------------------------------------------
(* Properties of the running bridge *)

\* the ChannelMessageSend calls of one stream's relay job, in order
StreamSends(st) == SelectSeq(sendLog, LAMBDA e : e.stream = st)

\* number of lines of a stream whose loop iteration is over
Finished(st) ==
    IF job[st].pc = "send" THEN Len(received[st]) - 1 ELSE Len(received[st])

\* what the relay loop does with each output line, and what ApplyRules gives
\* for each output line and each chat event
RelayImage == [l \in OutputLines |-> relayLine(l, BridgeRules, BridgeUserMap)]

AppliedOut ==
    [l \in OutputLines |->
        ApplyRules(BridgeRules.SubprocessToDiscord, NoProps, l)]

AppliedIn ==
    [m \in ChatEvents |->
        ApplyRules(BridgeRules.DiscordToSubprocess, MessageProps(m), m.Content)]

C9_SendFailureNotFatalNotRetried ==
    \A st \in Streams :
        /\ job[st].pc \in {"none", "start", "recv", "send"}
        /\ (readyOnce /\ job[st].pc # "start") => registered[st]
        /\ \A k \in 1..Len(received[st]) :
              Cardinality({i \in 1..Len(sendLog) :
                              sendLog[i].stream = st /\ sendLog[i].n = k})
              = IF k <= Finished(st)
                   /\ RelayImage[received[st][k]] # <<>>
                THEN 1 ELSE 0

\* C9 witness: a send failed and a later line of the same stream was sent
C9_Witness ==
    \E i, j \in 1..Len(sendLog) :
        /\ i < j
        /\ sendLog[i].err
        /\ sendLog[i].stream = sendLog[j].stream
        /\ sendLog[i].n < sendLog[j].n
        /\ ~sendLog[j].err
        /\ registered[sendLog[i].stream]

\* C10: the sends of a stream's relay job are, in order, the lines received
\* on its listener channel with the suppressed ones removed, and the line
\* in hand is sent before the next one is taken.
C10_PerStreamOrder ==
    \A st \in Streams :
        LET sends == StreamSends(st) IN
        /\ [i \in 1..Len(sends) |-> sends[i].text]
           = Flatten([k \in 1..Finished(st) |-> RelayImage[received[st][k]]])
        /\ \A i, j \in 1..Len(sends) : i < j => sends[i].n < sends[j].n
        /\ job[st].pc = "send" =>
              <<job[st].line>> = RelayImage[received[st][Len(received[st])]]

\* C10 witness: stdout's job received three lines, the second suppressed,
\* and sent the first and the third in that order
C10_Witness ==
    /\ received["stdout"] = << <<"a">>, <<"ESC", "[", "m">>, <<"@", "b", "o">> >>
    /\ job["stdout"].pc = "recv"
    /\ Len(sendLog) = 2
    /\ sendLog[1].text = <<"a">>
    /\ sendLog[2].text = <<"<", "@", "4", "2", ">">>
\* C11: however many Ready events are delivered, one relay job is started
\* per bus, once the first Ready event has been handled; each bus has at
\* most one relay listener and no received line is sent more than once.
C11_OneRelayJobPerBus ==
    \A st \in Streams :
        /\ started[st] = IF readyEvents >= 1 THEN 1 ELSE 0
        /\ listeners[st] <= 1
        /\ registered[st] <=> listeners[st] = 1
        /\ \A i, j \in 1..Len(sendLog) :
              (i # j /\ sendLog[i].stream = st /\ sendLog[j].stream = st)
                  => sendLog[i].n # sendLog[j].n

\* C11 witness: two Ready events were handled, each bus has its one job and
\* listener, and a line was sent
C11_Witness ==
    /\ readyEvents = 2
    /\ \A st \in Streams : started[st] = 1 /\ listeners[st] = 1
    /\ Len(sendLog) = 1

\* C12: an event by the bot itself or from another channel is never
\* published on stdinWrite; an event by another author in the relay channel
\* with a non-empty rule result is published exactly once, as that result
\* and a newline, and with an empty result not at all.
C12_NoEchoNoCrossChannel ==
    \A k \in 1..Len(eventLog) :
        LET m == eventLog[k]
            pubs == {i \in 1..Len(stdinLog) : stdinLog[i].event = k}
        IN IF m.AuthorID # BotUserID /\ m.ChannelID = RelayChannelId
              /\ AppliedIn[m] # <<>>
           THEN /\ Cardinality(pubs) = 1
                /\ \A i \in pubs : stdinLog[i].value = AppliedIn[m] \o <<"NL">>
           ELSE pubs = {}

\* C12 witness: the bot's own message in the relay channel was dropped and
\* a user's message after it was published once
C12_Witness ==
    /\ Len(eventLog) = 2
    /\ eventLog[1].AuthorID = BotUserID
    /\ eventLog[1].ChannelID = RelayChannelId
    /\ eventLog[2].AuthorID # BotUserID
    /\ Len(stdinLog) = 1
    /\ stdinLog[1].event = 2
====
